---- MODULE Spec2Model ----
(***************************************************************************)
(* Strautomator Core: the recipe engine (src/src/recipes/index.ts).        *)
(* Recipes.evaluate is modelled as a state machine whose steps are the     *)
(* stretches of code between two awaits: the lookup and the defaults, one  *)
(* step per awaited condition checker, one step per awaited action         *)
(* executor, and the awaited stats update.                                 *)
(***************************************************************************)
EXTENDS Integers, Sequences, FiniteSets, TLC

VARIABLES
    recipe,         \* user.recipes[id], the object evaluate reads and writes
    recipe0,        \* history: the recipe as stored before the call
    checker,        \* environment: what the checker of condition i does
    activity,       \* the StravaActivity passed to evaluate
    pc,             \* position of the evaluate call
    gi,             \* index of the group being iterated (outer for loop)
    ci,             \* index inside the group (inner for loop)
    valid,          \* let valid (line 259)
    sameValid,      \* let sameValid (line 265)
    condition,      \* let condition (line 258): index in recipe.conditions, 0 = undefined
    sortedActions,  \* const sortedActions (line 306): indices into recipe.actions
    ai,             \* index of the next action in sortedActions
    success,        \* let success (line 309)
    calls,          \* history: the collaborator calls made, in order
    result,         \* what evaluate returned or threw
    logged,         \* the "Not a match" line evaluate logged, NoLog if none
    other,          \* the locals of a second evaluate call, suspended at an await
    cur,            \* which of the two calls the locals above belong to
    vrecipe,        \* the recipe object passed to validate, changed in place
    vinput,         \* history: that object as it was passed to the first call
    vpc,            \* position of validate: "call", "returned" or "thrown"
    verror,         \* the message of the error validate threw, "" if none
    vcount          \* history: the number of validate calls made

\* The variables of an evaluate call and those of a validate call.
evars == <<recipe, recipe0, checker, activity, pc, gi, ci, valid, sameValid,
           condition, sortedActions, ai, success, calls, result, logged>>

\* The variables of the second of two interleaved evaluate calls.
pvars == <<other, cur>>

vvars == <<vrecipe, vinput, vpc, verror, vcount>>

vars == <<evars, vvars, pvars>>

\* ------------------------------------------------------------------ bounds

MaxConditions == 3
MaxActions == 3
MaxEntries == 2
MaxValidations == 2
MaxPairConditions == 2

\* ------------------------------------------------------------ pure helpers

SeqUpTo(S, n) ==
    UNION {[1..k -> S] : k \in 0..n}

Min2(a, b) ==
    IF a < b THEN a ELSE b

RECURSIVE Ascending(_)
\* The members of a finite set of integers, as an ascending sequence.
Ascending(S) ==
    IF S = {} THEN <<>>
    ELSE LET m == CHOOSE x \in S : \A y \in S : x <= y
         IN  <<m>> \o Ascending(S \ {m})

\* ------------------------------------------------------- recipes/types.ts

\* The action type strings, as their UTF-16 code units (JavaScript compares
\* strings code unit by code unit). The member names are the ones index.ts
\* uses; the strings are the camelCase of the names, as index.ts shows for
\* "commute" (line 498) and the "hideStat" prefix (line 433).
RecipeActionType ==
    [ Commute      |-> <<99, 111, 109, 109, 117, 116, 101>>,
      Gear         |-> <<103, 101, 97, 114>>,
      GenerateName |-> <<103, 101, 110, 101, 114, 97, 116, 101, 78, 97, 109, 101>>,
      HideHome     |-> <<104, 105, 100, 101, 72, 111, 109, 101>>,
      HideStatPace |-> <<104, 105, 100, 101, 83, 116, 97, 116, 80, 97, 99, 101>>,
      MapStyle     |-> <<109, 97, 112, 83, 116, 121, 108, 101>>,
      Name         |-> <<110, 97, 109, 101>>,
      SportType    |-> <<115, 112, 111, 114, 116, 84, 121, 112, 101>>,
      Webhook      |-> <<119, 101, 98, 104, 111, 111, 107>>,
      WorkoutType  |-> <<119, 111, 114, 107, 111, 117, 116, 84, 121, 112, 101>> ]

\* "hideStat", the prefix tested at line 433.
HideStatPrefix ==
    <<104, 105, 100, 101, 83, 116, 97, 116>>

\* a < b for two JavaScript strings.
StringLess(a, b) ==
    \E k \in 1..(Min2(Len(a), Len(b)) + 1) :
        /\ \A j \in 1..(k - 1) : a[j] = b[j]
        /\ \/ k > Len(a) /\ k <= Len(b)
           \/ k <= Len(a) /\ k <= Len(b) /\ a[k] < b[k]

\* action.type.toString().substring(0, 8)
Substring8(s) ==
    SubSeq(s, 1, Min2(Len(s), 8))

\* ------------------------------------------------------------- the inputs

NoValue == ""
Operators == {NoValue, "AND", "OR"}
Properties == {"gear", "distance"}
SportTypes == {"Ride", "Run"}
Outcomes == {"true", "false", "throw"}
UserRecipeIds == {"r1"}
RequestIds == {"r1", "r2"}

\* The action types the dispatch specification draws its recipes from.
DispatchTypes ==
    { RecipeActionType.Commute, RecipeActionType.Gear,
      RecipeActionType.Webhook, RecipeActionType.WorkoutType }

ConditionLists == SeqUpTo([property : Properties], MaxConditions)
ActionLists == SeqUpTo([type : DispatchTypes], MaxActions)

\* ------------------------------------------------------- Recipes.evaluate

\* A plausible slip: an absent op read as OR.
DefaultOpOr(r) ==
    IF r.op = NoValue THEN "OR" ELSE r.op

\* Lines 239 and 240: the default logical operators.
DefaultOp(r) ==
    IF r.op = NoValue THEN "AND" ELSE r.op

\* A plausible slip: samePropertyOp defaulted to AND instead of to op.
DefaultSamePropertyOpAnd(r) ==
    IF r.samePropertyOp = NoValue THEN "AND" ELSE r.samePropertyOp

\* Line 240.
DefaultSamePropertyOp(r) ==
    IF r.samePropertyOp = NoValue THEN DefaultOp(r) ELSE r.samePropertyOp

\* A plausible slip: every accumulator started at true.
InitialValidTrue(op) ==
    TRUE

\* Lines 259 and 265: where an accumulator starts.
InitialValid(op) ==
    IF op = "OR" THEN FALSE ELSE TRUE

\* A plausible slip: a default recipe matching every sport.
DefaultForAlways(sportType, defaultFor) ==
    TRUE

\* Lines 244 to 248: the default recipe of a sport.
DefaultForMatches(sportType, defaultFor) ==
    ~(sportType # defaultFor)

\* A plausible slip: every group holding every condition of the recipe.
GroupedConditionsAll(conds) ==
    LET firsts == Ascending({i \in 1..Len(conds) :
                        \A j \in 1..(i - 1) : conds[j].property # conds[i].property})
    IN  [g \in 1..Len(firsts) |-> Ascending(1..Len(conds))]

\* Line 255: Object.entries(_.groupBy(recipe.conditions, "property")): one
\* group per property, in the order of first occurrence, each holding the
\* indices of its conditions in their order in recipe.conditions.
GroupedConditions(conds) ==
    LET firsts == Ascending({i \in 1..Len(conds) :
                        \A j \in 1..(i - 1) : conds[j].property # conds[i].property})
    IN  [g \in 1..Len(firsts) |->
            Ascending({i \in 1..Len(conds) :
                        conds[i].property = conds[firsts[g]].property})]

\* A plausible slip: a throwing checker counted as a match (fail-open).
CheckConditionFailOpen(outcome) ==
    CASE outcome = "true"  -> TRUE
      [] outcome = "false" -> FALSE
      [] outcome = "throw" -> TRUE

\* Lines 327 to 416: checkCondition returns the checker's answer, and false
\* when the checker throws (the catch at line 412).
CheckConditionResult(outcome) ==
    CASE outcome = "true"  -> TRUE
      [] outcome = "false" -> FALSE
      [] outcome = "throw" -> FALSE

\* Lines 269 to 275: one condition folded into the group's accumulator.
SameStep(sameOp, acc, r) ==
    IF sameOp = "OR" THEN acc \/ r ELSE acc /\ r

\* A plausible slip: the break of the outer loop forgotten.
GroupBreakNever(op, acc) ==
    FALSE

\* A plausible slip: the inner loop left on the first false under OR too.
SameBreakOnFalse(sameOp, acc) ==
    ~acc

\* Lines 271 and 274: the inner loop's break.
SameBreak(sameOp, acc) ==
    IF sameOp = "OR" THEN acc ELSE ~acc

GroupStepOr(op, acc, g) ==
    acc \/ g

\* Lines 279 to 285: one group folded into the recipe's accumulator.
GroupStep(op, acc, g) ==
    IF op = "OR" THEN acc \/ g ELSE acc /\ g

\* Lines 281 and 284: the outer loop's break.
GroupBreak(op, acc) ==
    IF op = "OR" THEN acc ELSE ~acc

RECURSIVE InsertSorted(_, _, _)
\* i placed in the sorted index list s after every index whose type is not
\* greater: the insertion keeps equal types in their original order.
InsertSorted(actions, s, i) ==
    IF s = <<>> THEN <<i>>
    ELSE IF StringLess(actions[i].type, actions[Head(s)].type)
         THEN <<i>> \o s
         ELSE <<Head(s)>> \o InsertSorted(actions, Tail(s), i)

RECURSIVE SortPrefix(_, _)
SortPrefix(actions, n) ==
    IF n = 0 THEN <<>>
    ELSE InsertSorted(actions, SortPrefix(actions, n - 1), n)

\* A plausible slip: the actions are run in the order of recipe.actions.
UnsortedActions(actions) ==
    [i \in 1..Len(actions) |-> i]

\* Line 306: _.sortBy(recipe.actions, ["type"]), a stable ascending sort on
\* the type string; the result lists indices into recipe.actions.
SortByType(actions) ==
    SortPrefix(actions, Len(actions))

\* A plausible slip: || written for &&.
SuccessStepOr(acc, r) ==
    acc \/ r

\* Line 311: success = success && (await this.processAction(...)).
SuccessStep(acc, r) ==
    acc /\ r

\* Line 311: the right operand of && is evaluated only while success holds.
ExecutorInvoked(acc) ==
    acc

\* A plausible slip: evaluate returning the dispatch's success.
ReturnSuccess(s) ==
    IF s THEN "true" ELSE "false"

\* Line 317: return true, whatever success holds.
ReturnAfterDispatch(s) ==
    "true"

\* Lines 235, 246 and 297: return false.
NotMatchedReturn ==
    "false"

\* Line 229: throw new Error(`Recipe ${id} not found`).
NotFoundError ==
    "Error: not found"

\* Line 291: condition.property read while condition is undefined.
UndefinedConditionError ==
    "TypeError"

\* A plausible slip: the lookup's result not tested.
RecipeAlwaysFound(id) ==
    TRUE

\* Lines 226 to 230: user.recipes[id] holds a recipe.
RecipeFound(id) ==
    id \in UserRecipeIds

\* A plausible slip: the disabled flag not consulted.
NeverDisabled(r) ==
    FALSE

\* Line 233: if (recipe.disabled).
IsDisabled(r) ==
    r.disabled

\* ---------------------------------------------------- Recipes.processAction

\* Lines 432 to 468: the executor an action is handed to.
Executor(type) ==
    IF \/ type = RecipeActionType.Commute
       \/ type = RecipeActionType.HideHome
       \/ Substring8(type) = HideStatPrefix
    THEN "booleanAction"
    ELSE IF type = RecipeActionType.Gear THEN "gearAction"
    ELSE IF type = RecipeActionType.SportType THEN "sportTypeAction"
    ELSE IF type = RecipeActionType.WorkoutType THEN "workoutTypeAction"
    ELSE IF type = RecipeActionType.MapStyle THEN "mapStyleAction"
    ELSE IF type = RecipeActionType.GenerateName THEN "generateNameAction"
    ELSE IF type = RecipeActionType.Webhook THEN "webhookAction"
    ELSE "defaultAction"

\* What happens inside an executor: it changes the activity, it finds
\* nothing to change, or an exception is raised inside it.
ExecutorOutcomes == {"true", "false", "throw"}

\* Specification 7, ExecutorFailure: an exception inside an executor is
\* caught by the executor's own boundary and becomes a false result, so
\* processAction (which has no try/catch, lines 425 to 469) only ever
\* receives a boolean.
ExecutorResult(outcome) ==
    CASE outcome = "true"  -> TRUE
      [] outcome = "false" -> FALSE
      [] outcome = "throw" -> FALSE

\* A plausible slip: the list is created anew at every dispatch.
ResetUpdatedFields(a) ==
    [a EXCEPT !.hasUpdatedFields = TRUE, !.updatedFields = <<>>]

\* Lines 428 to 430: updatedFields is created when the activity has none.
InitUpdatedFields(a) ==
    IF a.hasUpdatedFields THEN a
    ELSE [a EXCEPT !.hasUpdatedFields = TRUE, !.updatedFields = <<>>]

\* Specification 4.3, steps 2 and 4: an executor returns whether it changed
\* the activity, and one that changed it appends the name of the field to
\* activity.updatedFields; the webhook executor changes no field.
ExecutorEffect(a, type, ret) ==
    IF ret /\ Executor(type) # "webhookAction"
    THEN [a EXCEPT !.updatedFields = Append(@, type)]
    ELSE a

\* ------------------------------------------------ the log of a non-match

NoLog == [condition |-> 0, value |-> NoValue]

\* Line 291 without the polyline guard.
ConditionPropVerbatim(property, a) ==
    a.props[property]

\* Line 291: the value of the activity's property named by the condition,
\* null when the property is polyline. (Lines 292 and 293 reformat dates and
\* arrays; the values of the model are texts.)
ConditionProp(property, a) ==
    IF property = "polyline" THEN NoValue ELSE a.props[property]

\* Lines 295 and 296: the line logged names the condition the loop variable
\* holds, and carries the value above when it is truthy.
NotMatchLog(i, c, a) ==
    [condition |-> i, value |-> ConditionProp(c.property, a)]

\* ----------------------------------------------------------------- calls

CheckerCall(i, r) ==
    [kind |-> "checker", arg |-> i, ret |-> r]

ExecutorCall(i, r, outcome) ==
    [kind |-> "executor", arg |-> i, ret |-> r, threw |-> (outcome = "throw")]

StatsCall(s) ==
    [kind |-> "stats", arg |-> 0, ret |-> s]

\* ------------------------------------------------------------------ Init

\* The properties of an activity the conditions of the model can name.
ActivityProps == [gear |-> "b1", distance |-> "42", polyline |-> "xyz"]

\* No evaluate call but the one of the variables is around.
NoOther == [pc |-> "none"]

\* The locals of a call that has not started, and no validate call.
InitLocals ==
    /\ recipe0 = recipe
    /\ checker \in [1..Len(recipe.conditions) -> Outcomes]
    /\ pc = "start"
    /\ gi = 0
    /\ ci = 0
    /\ valid = TRUE
    /\ sameValid = TRUE
    /\ condition = 0
    /\ sortedActions = <<>>
    /\ ai = 0
    /\ success = TRUE
    /\ calls = <<>>
    /\ result = "none"
    /\ logged = NoLog
    /\ cur = 1
    /\ vrecipe = "none"
    /\ vinput = "none"
    /\ vpc = "idle"
    /\ verror = "none"
    /\ vcount = 0

\* A call on an activity that has no updatedFields yet.
InitCall ==
    /\ activity \in [sportType : SportTypes, hasUpdatedFields : {FALSE},
                     updatedFields : {<<>>}, props : {ActivityProps}]
    /\ other = NoOther
    /\ InitLocals

\* Recipes of every shape of conditions, with one fixed action list.
Init ==
    /\ recipe \in [ disabled : BOOLEAN, op : Operators, samePropertyOp : Operators,
                    defaultFor : {NoValue, "Ride"},
                    conditions : ConditionLists,
                    actions : {<<[type |-> RecipeActionType.Gear],
                                 [type |-> RecipeActionType.Commute]>>} ]
    /\ InitCall

\* Recipes of every shape of conditions whose operators are stored unset or
\* as OR: an operator stored as AND is the default of lines 239 and 240.
InitFair ==
    /\ recipe \in [ disabled : BOOLEAN, op : {NoValue, "OR"},
                    samePropertyOp : {NoValue, "OR"},
                    defaultFor : {NoValue, "Ride"},
                    conditions : ConditionLists,
                    actions : {<<[type |-> RecipeActionType.Gear],
                                 [type |-> RecipeActionType.Commute]>>} ]
    /\ InitCall

\* Recipes as validate leaves them (at least one action; no condition in a
\* default recipe, at least one in any other), of every shape of actions.
InitDispatch ==
    /\ recipe \in [ disabled : BOOLEAN, op : {NoValue, "OR"}, samePropertyOp : {NoValue},
                    defaultFor : {NoValue, "Ride"},
                    conditions : SeqUpTo([property : Properties], 1),
                    actions : ActionLists ]
    /\ Len(recipe.actions) >= 1
    /\ Len(recipe.conditions) = (IF recipe.defaultFor = NoValue THEN 1 ELSE 0)
    /\ InitCall

\* Enabled recipes as validate leaves them, evaluated on activities with
\* and without an updatedFields list (an earlier recipe of the same user may
\* have changed the activity).
InitFields ==
    /\ recipe \in [ disabled : {FALSE}, op : {NoValue}, samePropertyOp : {NoValue},
                    defaultFor : {NoValue, "Ride"},
                    conditions : SeqUpTo([property : Properties], 1),
                    actions : ActionLists ]
    /\ Len(recipe.actions) >= 1
    /\ Len(recipe.conditions) = (IF recipe.defaultFor = NoValue THEN 1 ELSE 0)
    /\ activity \in [sportType : SportTypes, hasUpdatedFields : BOOLEAN,
                     updatedFields : {<<>>, <<RecipeActionType.Name>>},
                     props : {ActivityProps}]
    /\ ~activity.hasUpdatedFields => activity.updatedFields = <<>>
    /\ other = NoOther
    /\ InitLocals

\* Enabled non-default recipes with conditions on the polyline and on
\* another property of the activity.
InitLog ==
    /\ recipe \in [ disabled : {FALSE}, op : Operators, samePropertyOp : Operators,
                    defaultFor : {NoValue},
                    conditions : SeqUpTo([property : {"polyline", "distance"}],
                                         MaxConditions),
                    actions : {<<[type |-> RecipeActionType.Gear],
                                 [type |-> RecipeActionType.Commute]>>} ]
    /\ InitCall

\* Two evaluate calls of one user on one stored recipe and two activities:
\* the call of the variables, and a second call, not started yet, with its
\* own activity and its own checker answers.
InitPair ==
    /\ recipe \in [ disabled : {FALSE}, op : {NoValue, "OR"},
                    samePropertyOp : {NoValue, "AND"}, defaultFor : {NoValue},
                    conditions : SeqUpTo([property : Properties], MaxPairConditions),
                    actions : {<<[type |-> RecipeActionType.Gear]>>} ]
    /\ Len(recipe.conditions) >= 1
    /\ activity = [sportType |-> "Ride", hasUpdatedFields |-> FALSE,
                   updatedFields |-> <<>>, props |-> ActivityProps]
    /\ InitLocals
    /\ other \in [ checker : [1..Len(recipe.conditions) -> Outcomes],
                   activity : {[sportType |-> "Run", hasUpdatedFields |-> FALSE,
                                updatedFields |-> <<>>, props |-> ActivityProps]},
                   pc : {"start"}, gi : {0}, ci : {0}, valid : {TRUE},
                   sameValid : {TRUE}, condition : {0}, sortedActions : {<<>>},
                   ai : {0}, success : {TRUE}, calls : {<<>>}, result : {"none"},
                   logged : {NoLog} ]

\* --------------------------------------------------------------- actions

\* Lines 301 to 311, once the recipe matched: sort the actions and enter the
\* dispatch loop, or go to the stats update when there is nothing to run.
\* The first processAction call runs lines 426 to 430 before its executor is
\* awaited, so the activity has its updatedFields when the call is suspended.
EnterDispatch ==
    /\ sortedActions' = SortByType(recipe'.actions)
    /\ ai' = 1
    /\ success' = TRUE
    /\ pc' = IF Len(recipe'.actions) = 0 THEN "stats" ELSE "actions"
    /\ activity' = IF Len(recipe'.actions) = 0 THEN activity
                   ELSE InitUpdatedFields(activity)
    /\ UNCHANGED result

\* A return or a throw of evaluate before the dispatch.
Leave(how, value) ==
    /\ pc' = how
    /\ result' = value
    /\ UNCHANGED <<sortedActions, ai, success, activity>>

\* Lines 239 and 240 write the operators into user.recipes[id], which is the
\* object validate returned on when the caller stored that object: v is that
\* object as validate sees it, r the recipe as evaluate left it.
SameObject(v, r) ==
    [f \in (DOMAIN v) \cup {"op", "samePropertyOp"} |->
        IF f = "op" THEN r.op
        ELSE IF f = "samePropertyOp" THEN r.samePropertyOp
        ELSE v[f]]

\* Lines 226 to 260: from the call to the first await.
Start(id) ==
    /\ pc = "start"
    /\ UNCHANGED <<recipe0, checker, calls, sameValid, logged>>
    /\ UNCHANGED <<vinput, vpc, verror, vcount>>
    /\ UNCHANGED pvars
    /\ IF ~RecipeFound(id)
       THEN /\ Leave("thrown", NotFoundError)
            /\ UNCHANGED <<recipe, gi, ci, valid, condition>>
       ELSE IF IsDisabled(recipe)
       THEN /\ Leave("done", NotMatchedReturn)
            /\ UNCHANGED <<recipe, gi, ci, valid, condition>>
       ELSE /\ recipe' = [recipe EXCEPT !.op = DefaultOp(recipe),
                                        !.samePropertyOp = DefaultSamePropertyOp(recipe)]
            /\ IF recipe.defaultFor # NoValue
               THEN /\ UNCHANGED <<gi, ci, valid, condition>>
                    /\ IF DefaultForMatches(activity.sportType, recipe.defaultFor)
                       THEN EnterDispatch
                       ELSE Leave("done", NotMatchedReturn)
               ELSE /\ valid' = InitialValid(recipe'.op)
                    /\ UNCHANGED condition
                    /\ IF Len(recipe.conditions) > 0
                       THEN /\ gi' = 1
                            /\ ci' = 1
                            /\ pc' = "conditions"
                            /\ UNCHANGED <<sortedActions, ai, success, result,
                                           activity>>
                       ELSE /\ UNCHANGED <<gi, ci>>
                            /\ IF valid'
                               THEN EnterDispatch
                               \* line 291 reads condition.property of undefined
                               ELSE Leave("thrown", UndefinedConditionError)
    /\ vrecipe' = IF vpc = "idle" \/ recipe' = recipe THEN vrecipe
                  ELSE SameObject(vrecipe, recipe')

\* Lines 262 to 299: one iteration of the inner loop, which awaits one
\* checker, and whatever follows it up to the next await.
CheckCondition ==
    /\ pc = "conditions"
    /\ LET groups == GroupedConditions(recipe.conditions)
           c == groups[gi][ci]
           acc0 == IF ci = 1 THEN InitialValid(recipe.samePropertyOp) ELSE sameValid
           r == CheckConditionResult(checker[c])
           sv == SameStep(recipe.samePropertyOp, acc0, r)
           groupDone == SameBreak(recipe.samePropertyOp, sv) \/ ci = Len(groups[gi])
           v == GroupStep(recipe.op, valid, sv)
           allDone == groupDone /\ (GroupBreak(recipe.op, v) \/ gi = Len(groups))
       IN  /\ condition' = c
           /\ calls' = Append(calls, CheckerCall(c, r))
           /\ sameValid' = sv
           /\ valid' = IF groupDone THEN v ELSE valid
           /\ UNCHANGED <<recipe, recipe0, checker>>
           /\ UNCHANGED vvars
           /\ UNCHANGED pvars
           /\ IF ~groupDone
              THEN /\ ci' = ci + 1
                   /\ UNCHANGED <<gi, pc, sortedActions, ai, success, result, logged,
                                  activity>>
              ELSE IF ~allDone
              THEN /\ gi' = gi + 1
                   /\ ci' = 1
                   /\ UNCHANGED <<pc, sortedActions, ai, success, result, logged,
                                  activity>>
              ELSE /\ UNCHANGED <<gi, ci>>
                   /\ IF v
                      THEN EnterDispatch /\ UNCHANGED logged
                      ELSE /\ logged' = NotMatchLog(condition', recipe.conditions[condition'],
                                                    activity)
                           /\ Leave("done", NotMatchedReturn)

\* Lines 310 to 312, from the settling of the awaited executor to the next
\* await: the executor's result and effect, success, the iterations that
\* await nothing and, when another action is dispatched, lines 426 to 430 of
\* its processAction call.
ProcessAction(outcome) ==
    /\ pc = "actions"
    /\ ExecutorInvoked(success)
    /\ LET a == sortedActions[ai]
           ret == ExecutorResult(outcome)
           s == SuccessStep(success, ret)
           rest == {j \in (ai + 1)..Len(sortedActions) : TRUE}
       IN  /\ calls' = Append(calls, ExecutorCall(a, ret, outcome))
           /\ activity' = IF rest # {} /\ ExecutorInvoked(s)
                          THEN InitUpdatedFields(
                                   ExecutorEffect(activity, recipe.actions[a].type, ret))
                          ELSE ExecutorEffect(activity, recipe.actions[a].type, ret)
           /\ success' = s
           /\ IF rest # {} /\ ExecutorInvoked(s)
              THEN /\ ai' = ai + 1
                   /\ pc' = "actions"
              ELSE /\ ai' = Len(sortedActions) + 1
                   /\ pc' = "stats"
    /\ UNCHANGED <<recipe, recipe0, checker, gi, ci, valid, sameValid, condition,
                   sortedActions, result, logged>>
    /\ UNCHANGED vvars
    /\ UNCHANGED pvars

\* Lines 314 to 317.
UpdateStats ==
    /\ pc = "stats"
    /\ calls' = Append(calls, StatsCall(success))
    /\ pc' = "done"
    /\ result' = ReturnAfterDispatch(success)
    /\ UNCHANGED <<recipe, recipe0, checker, activity, gi, ci, valid, sameValid,
                   condition, sortedActions, ai, success, logged>>
    /\ UNCHANGED vvars
    /\ UNCHANGED pvars

\* The locals of the call of the variables.
Locals ==
    [ checker |-> checker, activity |-> activity, pc |-> pc, gi |-> gi, ci |-> ci,
      valid |-> valid, sameValid |-> sameValid, condition |-> condition,
      sortedActions |-> sortedActions, ai |-> ai, success |-> success,
      calls |-> calls, result |-> result, logged |-> logged ]

\* At an await of one call the event loop resumes the other call: the two
\* calls trade places, and user.recipes, which both read, stays as it is.
Switch ==
    /\ other.pc # "none"
    /\ other' = Locals
    /\ cur' = 3 - cur
    /\ checker' = other.checker
    /\ activity' = other.activity
    /\ pc' = other.pc
    /\ gi' = other.gi
    /\ ci' = other.ci
    /\ valid' = other.valid
    /\ sameValid' = other.sameValid
    /\ condition' = other.condition
    /\ sortedActions' = other.sortedActions
    /\ ai' = other.ai
    /\ success' = other.success
    /\ calls' = other.calls
    /\ result' = other.result
    /\ logged' = other.logged
    /\ UNCHANGED <<recipe, recipe0>>
    /\ UNCHANGED vvars

Next ==
    \/ \E id \in RequestIds : Start(id)
    \/ CheckCondition
    \/ \E outcome \in ExecutorOutcomes : ProcessAction(outcome)
    \/ UpdateStats

Spec == Init /\ [][Next]_vars

\* Every await of evaluate (a checker at line 265, an executor at line 311,
\* the stats update at line 315) is of a call that terminates, so a call
\* that can take a step takes one.
SpecFair == InitFair /\ [][Next]_vars /\ WF_vars(Next)

SpecDispatch == InitDispatch /\ [][Next]_vars

SpecFields == InitFields /\ [][Next]_vars

SpecLog == InitLog /\ [][Next]_vars

NextPair ==
    \/ Next
    \/ Switch

SpecPair == InitPair /\ [][NextPair]_vars

\* ------------------------------------------------- JavaScript values
\* A value a JSON body can carry, with its runtime type: validate tells
\* undefined from null from "", and a number from a numeric string.

Undefined == [t |-> "undefined", v |-> ""]
Null == [t |-> "null", v |-> ""]
Str(s) == [t |-> "string", v |-> s]
Num(s) == [t |-> "number", v |-> s]
Bool(s) == [t |-> "boolean", v |-> s]
Arr(items) == [t |-> "array", v |-> items]
NotArray == [t |-> "object", v |-> <<>>]

\* An object is a function from its own keys to their values; a key the
\* object does not have reads as undefined.
EmptyObject == [k \in {} |-> Undefined]

Has(o, k) ==
    k \in DOMAIN o

Field(o, k, missing) ==
    IF Has(o, k) THEN o[k] ELSE missing

Get(o, k) ==
    Field(o, k, Undefined)

Set(o, k, x) ==
    [f \in (DOMAIN o) \cup {k} |-> IF f = k THEN x ELSE o[f]]

\* The texts of the model. LongText stands for a text longer than every
\* settings.recipes.maxLength limit, the other texts are within the limits.
LongText == "long"
UrlText == "http://a.b"
NumericTexts == {"", "0", "1", "40"}

\* if (x): the falsy values are undefined, null, "", 0, NaN and false.
Truthy(x) ==
    IF x.t \in {"undefined", "null"} THEN FALSE
    ELSE IF x.t = "string" THEN x.v # ""
    ELSE IF x.t = "number" THEN x.v \notin {"0", "NaN"}
    ELSE IF x.t = "boolean" THEN x.v = "true"
    ELSE TRUE

\* The global isNaN(x): x is converted to a number first.
IsNaN(x) ==
    IF x.t = "undefined" THEN TRUE
    ELSE IF x.t \in {"null", "boolean"} THEN FALSE
    ELSE IF x.t = "number" THEN x.v = "NaN"
    ELSE IF x.t = "string" THEN x.v \notin NumericTexts
    ELSE IF x.t = "array" THEN Len(x.v) > 0
    ELSE TRUE

\* _.isString(x) && x.length > settings.recipes.maxLength.<field>
IsLongString(x) ==
    x.t = "string" /\ x.v = LongText

\* [true, false, 1, 0].includes(x), a comparison without conversion.
IsBooleanLike(x) ==
    \/ x.t = "boolean"
    \/ x.t = "number" /\ x.v \in {"0", "1"}

\* The URL pattern of line 194 tested on String(x).
IsUrl(x) ==
    x.t = "string" /\ x.v = UrlText

\* _.isArray(x) and _.isEmpty(o) of an object.
IsArray(x) ==
    x.t = "array"

IsEmpty(o) ==
    DOMAIN o = {}

\* ------------------------------------------- recipes/types.ts and lists.ts
\* The operator enumeration and the property catalog are not part of the
\* sources at hand: a catalog with one property of each of the types the
\* validation tells apart, each listing the operators of its type.

RecipeOperator == {"=", ">", "like"}

recipePropertyList ==
    { [value |-> "distance", type |-> "number", operators |-> {"=", ">"}],
      [value |-> "gear", type |-> "string", operators |-> {"=", "like"}],
      [value |-> "commute", type |-> "boolean", operators |-> {"="}] }

ActionTypeValues ==
    { RecipeActionType.Commute, RecipeActionType.Gear, RecipeActionType.GenerateName,
      RecipeActionType.HideHome, RecipeActionType.HideStatPace,
      RecipeActionType.MapStyle, RecipeActionType.Name, RecipeActionType.SportType,
      RecipeActionType.Webhook, RecipeActionType.WorkoutType }

\* propSpecs = recipePropertyList.find((p) => p.value == condition.property)
PropSpecs(property) ==
    {p \in recipePropertyList : p.value = property}

\* ------------------------------------------------------- Recipes.validate
\* The error messages, without the values the code interpolates in them.

NoError == ""
ErrTitleMissing == "Missing recipe title"
ErrTitleLong == "Recipe title is too long"
ErrOrder == "Recipe order must be a number"
ErrNoActions == "Recipe must have at least one action"
ErrActionsList == "Missing or invalid recipe actions list"
ErrNoConditions == "Recipe must have at least one condition"
ErrProperty == "Missing condition property"
ErrOperator == "Invalid condition operator"
ErrValue == "Missing condition value"
ErrValueLong == "Condition value is too long"
ErrFriendlyLong == "Condition friendly value is too long"
ErrPropertyInvalid == "Condition property is not valid"
ErrNumber == "Condition property must be a valid number"
ErrBoolean == "Condition property must be a boolean"
ErrField == "Invalid field"
ErrActionType == "Invalid action type"
ErrActionValue == "Missing action value"
ErrWebhook == "Webhook URL is not valid"
ErrActionLong == "Action value is too long"

\* list.filter((e) => !_.isEmpty(e))
PruneEmpty(items) ==
    SelectSeq(items, LAMBDA e : ~IsEmpty(e))

\* The fields the recipe keeps (the list of line 117), and the list a slip
\* of the pen would give.
KnownRecipeFieldsNoTitle ==
    {"id", "conditions", "actions", "order", "op", "samePropertyOp", "defaultFor",
     "killSwitch", "disabled"}

KnownRecipeFields ==
    {"id", "title", "conditions", "actions", "order", "op", "samePropertyOp",
     "defaultFor", "killSwitch", "disabled"}

ConditionFields == {"property", "operator", "value", "friendlyValue"}
ActionFields == {"type", "value", "friendlyValue"}

\* Lines 113-124: every own key outside the list is deleted.
DeleteUnknownFields(r) ==
    [f \in (DOMAIN r) \cap KnownRecipeFields |-> r[f]]

\* Lines 127-130: a default recipe gets order 0 and no conditions.
ForceNothing(r) ==
    r

ForceDefault(r) ==
    Set(Set(r, "order", Num("0")), "conditions", Arr(<<>>))

\* Lines 138-176: the first check one condition fails, NoError if none.
ConditionError(c) ==
    LET cValue == Get(c, "value")
        friendlyValue == Get(c, "friendlyValue")
        property == Field(c, "property", "")
        operator == Field(c, "operator", "")
        propSpecs == PropSpecs(property)
        type == (CHOOSE p \in propSpecs : TRUE).type
    IN  IF property = "" THEN ErrProperty
        ELSE IF operator \notin RecipeOperator THEN ErrOperator
        ELSE IF cValue = Null \/ cValue = Str("") THEN ErrValue
        ELSE IF IsLongString(cValue) THEN ErrValueLong
        ELSE IF Truthy(friendlyValue) /\ IsLongString(friendlyValue)
             THEN ErrFriendlyLong
        ELSE IF propSpecs = {} THEN ErrPropertyInvalid
        ELSE IF type = "number" /\ IsNaN(cValue) THEN ErrNumber
        ELSE IF type = "boolean" /\ ~IsBooleanLike(cValue) THEN ErrBoolean
        ELSE IF (DOMAIN c) \ ConditionFields # {} THEN ErrField
        ELSE NoError

\* Lines 180-211: the first check one action fails, NoError if none.
ActionError(a) ==
    LET type == Field(a, "type", <<>>)
        value == Get(a, "value")
    IN  IF type \notin ActionTypeValues THEN ErrActionType
        ELSE IF type # RecipeActionType.Commute /\ (value = Null \/ value = Str(""))
             THEN ErrActionValue
        ELSE IF type = RecipeActionType.Webhook /\ ~IsUrl(value) THEN ErrWebhook
        ELSE IF Truthy(value) /\ IsLongString(value) THEN ErrActionLong
        ELSE IF (DOMAIN a) \ ActionFields # {} THEN ErrField
        ELSE NoError

\* A for-of loop of checks stops at the first entry that throws: the first
\* error of the list of what each entry's checks give.
FirstError(errors) ==
    LET failing == {i \in 1..Len(errors) : errors[i] # NoError}
    IN  IF failing = {} THEN NoError
        ELSE errors[CHOOSE i \in failing : \A j \in failing : i <= j]

Outcome(r, error) ==
    [recipe |-> r, error |-> error]

\* Lines 179-211, reached with the recipe fields settled.
ValidateActions(r) ==
    LET actions == r["actions"].v
    IN  Outcome(r, FirstError([i \in 1..Len(actions) |-> ActionError(actions[i])]))

\* Lines 126-177 without the test of line 133.
ValidateConditionsAllowEmpty(r) ==
    LET conditions == Get(r, "conditions")
        error == FirstError([i \in 1..Len(conditions.v) |->
                                ConditionError(conditions.v[i])])
    IN  IF Field(r, "defaultFor", "") # "" THEN ValidateActions(ForceDefault(r))
        ELSE IF error # NoError THEN Outcome(r, error)
        ELSE ValidateActions(r)

\* Lines 126-177.
ValidateConditions(r) ==
    LET conditions == Get(r, "conditions")
        error == FirstError([i \in 1..Len(conditions.v) |->
                                ConditionError(conditions.v[i])])
    IN  IF Field(r, "defaultFor", "") # "" THEN ValidateActions(ForceDefault(r))
        ELSE IF ~IsArray(conditions) \/ Len(conditions.v) = 0
             THEN Outcome(r, ErrNoConditions)
        ELSE IF error # NoError THEN Outcome(r, error)
        ELSE ValidateActions(r)

\* Lines 100-124 without the test of line 102.
ValidateListsNoEmptyCheck(r) ==
    LET actions == Get(r, "actions")
        conditions == Get(r, "conditions")
        pruned == Set(r, "actions", Arr(PruneEmpty(actions.v)))
        prunedBoth == IF IsArray(conditions)
                      THEN Set(pruned, "conditions", Arr(PruneEmpty(conditions.v)))
                      ELSE pruned
    IN  IF ~IsArray(actions) THEN Outcome(r, ErrActionsList)
        ELSE ValidateConditions(DeleteUnknownFields(prunedBoth))

\* Lines 100-124: the lists are pruned in place, then the unknown fields go.
ValidateLists(r) ==
    LET actions == Get(r, "actions")
        conditions == Get(r, "conditions")
        pruned == Set(r, "actions", Arr(PruneEmpty(actions.v)))
        prunedBoth == IF IsArray(conditions)
                      THEN Set(pruned, "conditions", Arr(PruneEmpty(conditions.v)))
                      ELSE pruned
    IN  IF ~IsArray(actions) THEN Outcome(r, ErrActionsList)
        ELSE IF Len(pruned["actions"].v) = 0 THEN Outcome(pruned, ErrNoActions)
        ELSE ValidateConditions(DeleteUnknownFields(prunedBoth))

\* Lines 82-216: the recipe as validate leaves it, and the error it throws.
\* The argument is a recipe object: a call without one throws at line 85
\* before anything is read or written.
ValidateRun(r) ==
    LET title == Field(r, "title", "")
        order == Get(r, "order")
    IN  IF title = "" THEN Outcome(r, ErrTitleMissing)
        ELSE IF title = LongText THEN Outcome(r, ErrTitleLong)
        ELSE IF Truthy(order) /\ IsNaN(order) THEN Outcome(r, ErrOrder)
        ELSE ValidateLists(r)

\* ------------------------------------------------- the inputs of validate
\* Objects as a request body can carry them: any of the keys may be missing,
\* and "foo" is a key no schema knows.

Restrict(o, keys) ==
    [k \in keys |-> o[k]]

ObjectsOf(records, required, optional) ==
    { Restrict(o, required \cup present) : o \in records, present \in SUBSET optional }

ConditionInputs ==
    ObjectsOf([ property : {"distance", "gear", "commute", "bogus"},
                operator : {"=", ">", "like", "~~"},
                value : {Null, Str(""), Str("abc"), Num("1"), Num("40"),
                         Bool("true"), Str(LongText)},
                friendlyValue : {Str("f"), Str(LongText)},
                foo : {Num("1")} ],
              {}, {"property", "operator", "value", "friendlyValue", "foo"})

ActionInputs ==
    ObjectsOf([ type : {RecipeActionType.Commute, RecipeActionType.Gear,
                        RecipeActionType.Webhook, <<122>>},
                value : {Null, Str(""), Str("abc"), Str(UrlText), Str(LongText)},
                friendlyValue : {Str("f")},
                foo : {Num("1")} ],
              {}, {"type", "value", "friendlyValue", "foo"})

ValidCondition == [property |-> "distance", operator |-> ">", value |-> Num("40")]
ValidAction == [type |-> RecipeActionType.Gear, value |-> Str("abc")]

\* The lists of 1 to MaxEntries entries with one entry of S, the others empty
\* or valid.
EntryLists(S, filler) ==
    UNION { UNION { { [i \in 1..n |-> IF i = k THEN e ELSE rest[i]] :
                        e \in S, rest \in [1..n -> {EmptyObject, filler}] }
                    : k \in 1..n }
            : n \in 1..MaxEntries }

\* Recipes that differ in the fields of the recipe itself.
RecipeInputs ==
    ObjectsOf([ title : {"", "T", LongText},
                order : {Num("1"), Num("NaN"), Str("abc")},
                op : {"OR"},
                samePropertyOp : {"AND"},
                defaultFor : {"Ride"},
                disabled : {Bool("true")},
                foo : {Num("1")},
                actions : {NotArray, Arr(<<>>), Arr(<<EmptyObject>>),
                           Arr(<<ValidAction>>), Arr(<<EmptyObject, ValidAction>>)},
                conditions : {NotArray, Arr(<<>>), Arr(<<ValidCondition>>),
                              Arr(<<EmptyObject, ValidCondition>>),
                              Arr(<<[property |-> "bogus"]>>)} ],
              {}, {"title", "order", "op", "samePropertyOp", "defaultFor",
                   "disabled", "foo", "actions", "conditions"})

\* Recipes that differ in their conditions, and recipes that differ in their
\* actions; both default and not.
RecipesOf(conditions, actions) ==
    ObjectsOf([ title : {"T"}, defaultFor : {"Ride"},
                conditions : {Arr(c) : c \in conditions},
                actions : {Arr(a) : a \in actions} ],
              {"title", "conditions", "actions"}, {"defaultFor"})

\* The recipe object validate returned on, as evaluate reads it once it is
\* user.recipes[id]: disabled by its truthiness (line 233), the operators
\* and defaultFor by their falsiness (lines 239, 240 and 244), the conditions
\* by their property (line 255, an absent list groups to nothing) and the
\* actions by their type (line 306).
StoredRecipe(v) ==
    LET conditions == IF Has(v, "conditions") /\ IsArray(v["conditions"])
                      THEN v["conditions"].v ELSE <<>>
        actions == v["actions"].v
    IN  [ disabled |-> Truthy(Get(v, "disabled")),
          op |-> Field(v, "op", NoValue),
          samePropertyOp |-> Field(v, "samePropertyOp", NoValue),
          defaultFor |-> Field(v, "defaultFor", NoValue),
          conditions |-> [i \in 1..Len(conditions) |->
                             [property |-> conditions[i]["property"]]],
          actions |-> [i \in 1..Len(actions) |-> [type |-> actions[i]["type"]]] ]

\* One call of validate on the recipe object, whole: lines 82 to 216. Once
\* the object is user.recipes[id] of an evaluate call, what validate writes
\* to it is written to the recipe that call reads.
Validate ==
    /\ vpc \in {"call", "returned"}
    /\ vcount < MaxValidations
    /\ LET outcome == ValidateRun(vrecipe)
       IN  /\ vrecipe' = outcome.recipe
           /\ verror' = outcome.error
           /\ vpc' = IF outcome.error = NoError THEN "returned" ELSE "thrown"
    /\ vcount' = vcount + 1
    /\ recipe' = IF pc = "idle" THEN recipe ELSE StoredRecipe(vrecipe')
    /\ UNCHANGED vinput
    /\ UNCHANGED <<recipe0, checker, activity, pc, gi, ci, valid, sameValid,
                   condition, sortedActions, ai, success, calls, result, logged>>
    /\ UNCHANGED pvars

\* No evaluate call is in progress while a recipe is validated.
InitValidate ==
    /\ \/ vrecipe \in RecipeInputs
       \/ vrecipe \in RecipesOf(EntryLists(ConditionInputs, ValidCondition),
                                {<<ValidAction>>})
       \/ vrecipe \in RecipesOf({<<ValidCondition>>},
                                EntryLists(ActionInputs, ValidAction))
    /\ vinput = vrecipe
    /\ vpc = "call"
    /\ verror = NoError
    /\ vcount = 0
    /\ recipe = [disabled |-> FALSE, op |-> NoValue, samePropertyOp |-> NoValue,
                 defaultFor |-> NoValue, conditions |-> <<>>, actions |-> <<>>]
    /\ recipe0 = recipe
    /\ checker = <<>>
    /\ activity = [sportType |-> "Ride", hasUpdatedFields |-> FALSE,
                   updatedFields |-> <<>>, props |-> ActivityProps]
    /\ pc = "idle"
    /\ gi = 0
    /\ ci = 0
    /\ valid = TRUE
    /\ sameValid = TRUE
    /\ condition = 0
    /\ sortedActions = <<>>
    /\ ai = 0
    /\ success = TRUE
    /\ calls = <<>>
    /\ result = "none"
    /\ logged = NoLog
    /\ other = NoOther
    /\ cur = 1

NextValidate ==
    Validate

SpecValidate == InitValidate /\ [][NextValidate]_vars

\* ------------------------------------------- validate, then evaluate

GearCondition == [property |-> "gear", operator |-> "=", value |-> Str("abc")]

\* Recipe objects with a title, with and without operators, defaultFor and
\* disabled, with condition lists that are absent, not a list, empty, of
\* empty entries only, and of one or two conditions on the properties of
\* the activity.
StoredInputs ==
    ObjectsOf([ title : {"T"},
                op : {"OR"},
                samePropertyOp : {"OR"},
                defaultFor : {"Ride"},
                disabled : {Bool("true")},
                actions : {Arr(<<ValidAction>>), Arr(<<EmptyObject, ValidAction>>)},
                conditions : {NotArray, Arr(<<>>), Arr(<<EmptyObject>>),
                              Arr(<<ValidCondition>>),
                              Arr(<<EmptyObject, GearCondition>>),
                              Arr(<<GearCondition, ValidCondition>>)} ],
              {"title", "actions"},
              {"op", "samePropertyOp", "defaultFor", "disabled", "conditions"})

InitStored ==
    /\ vrecipe \in StoredInputs
    /\ vinput = vrecipe
    /\ vpc = "call"
    /\ verror = NoError
    /\ vcount = 0
    /\ recipe = [disabled |-> FALSE, op |-> NoValue, samePropertyOp |-> NoValue,
                 defaultFor |-> NoValue, conditions |-> <<>>, actions |-> <<>>]
    /\ recipe0 = recipe
    /\ checker = <<>>
    /\ activity = [sportType |-> "Ride", hasUpdatedFields |-> FALSE,
                   updatedFields |-> <<>>, props |-> ActivityProps]
    /\ pc = "idle"
    /\ gi = 0
    /\ ci = 0
    /\ valid = TRUE
    /\ sameValid = TRUE
    /\ condition = 0
    /\ sortedActions = <<>>
    /\ ai = 0
    /\ success = TRUE
    /\ calls = <<>>
    /\ result = "none"
    /\ logged = NoLog
    /\ other = NoOther
    /\ cur = 1

\* The recipe validate returned on is user.recipes[id] when evaluate is
\* called with its id, on any activity and with checkers of any outcome.
Store ==
    /\ vpc = "returned"
    /\ pc = "idle"
    /\ recipe' = StoredRecipe(vrecipe)
    /\ recipe0' = recipe'
    /\ checker' \in [1..Len(recipe'.conditions) -> Outcomes]
    /\ activity' \in [sportType : SportTypes, hasUpdatedFields : {FALSE},
                      updatedFields : {<<>>}, props : {ActivityProps}]
    /\ pc' = "start"
    /\ UNCHANGED <<gi, ci, valid, sameValid, condition, sortedActions, ai, success,
                   calls, result, logged>>
    /\ UNCHANGED vvars
    /\ UNCHANGED pvars

NextStored ==
    \/ Validate
    \/ Store
    \/ \E id \in UserRecipeIds : Start(id)
    \/ CheckCondition
    \/ \E outcome \in ExecutorOutcomes : ProcessAction(outcome)
    \/ UpdateStats

SpecStored == InitStored /\ [][NextStored]_vars

\* ------------------------------------------------- the stated semantics

\* What the specification says of a recipe, stated on the stored recipe and
\* on what each checker answers, without the loops of evaluate.
Finished == pc \in {"done", "thrown"}
Found == result # NotFoundError
Enabled0 == ~recipe0.disabled
NonDefault0 == recipe0.defaultFor = NoValue
Op0 == IF recipe0.op = NoValue THEN "AND" ELSE recipe0.op
SameOp0 == IF recipe0.samePropertyOp = NoValue THEN Op0 ELSE recipe0.samePropertyOp
ConditionIds == 1..Len(recipe0.conditions)
ConditionTrue(i) == checker[i] = "true"
GroupOf(p) == {i \in ConditionIds : recipe0.conditions[i].property = p}
GroupsPresent == {recipe0.conditions[i].property : i \in ConditionIds}
GroupTrue(p) ==
    IF SameOp0 = "OR" THEN \E i \in GroupOf(p) : ConditionTrue(i)
    ELSE \A i \in GroupOf(p) : ConditionTrue(i)
ConditionsMatch ==
    IF Op0 = "OR" THEN \E p \in GroupsPresent : GroupTrue(p)
    ELSE \A p \in GroupsPresent : GroupTrue(p)
RecipeMatches ==
    IF NonDefault0 THEN ConditionsMatch
    ELSE activity.sportType = recipe0.defaultFor
CallIds == 1..Len(calls)
CheckerCalls == {k \in CallIds : calls[k].kind = "checker"}
ExecutorCalls == {k \in CallIds : calls[k].kind = "executor"}
StatsCalls == {k \in CallIds : calls[k].kind = "stats"}

\* ---------------------------------------------------------------- claims

\* C1: an enabled, non-default recipe found in the user's map, with op AND
\* and samePropertyOp AND (absent op read as AND, absent samePropertyOp as
\* op), is reported as a match if and only if every condition is true.
C1_AndAndAllTrue ==
    (Finished /\ Found /\ Enabled0 /\ NonDefault0 /\ Op0 = "AND" /\ SameOp0 = "AND")
        => (result = "true" <=> \A i \in ConditionIds : ConditionTrue(i))

\* C1 witness: both operators absent, two groups, every condition true, and
\* evaluate returned true.
C1_Witness ==
    /\ pc = "done" /\ result = "true" /\ Enabled0 /\ NonDefault0
    /\ recipe0.op = NoValue /\ recipe0.samePropertyOp = NoValue
    /\ Len(recipe0.conditions) = 3 /\ Cardinality(GroupsPresent) = 2

\* C2: an enabled, non-default recipe with op OR is reported as a match if
\* and only if some property group is true under samePropertyOp.
C2_OrSomeGroup ==
    (Finished /\ Found /\ Enabled0 /\ NonDefault0 /\ Op0 = "OR")
        => (result = "true" <=> \E p \in GroupsPresent : GroupTrue(p))

\* C2 witness: op OR with samePropertyOp AND, the first group false, the
\* second group of two conditions true, and evaluate returned true.
C2_Witness ==
    /\ pc = "done" /\ result = "true" /\ Enabled0 /\ NonDefault0
    /\ recipe0.op = "OR" /\ recipe0.samePropertyOp = "AND"
    /\ Len(recipe0.conditions) = 3
    /\ ~ConditionTrue(1)
    /\ \E p \in GroupsPresent : Cardinality(GroupOf(p)) = 2 /\ GroupTrue(p)

\* C3: an enabled, non-default recipe with op AND and samePropertyOp OR is
\* reported as a match if and only if every property group holds a true
\* condition.
C3_AndOfOrGroups ==
    (Finished /\ Found /\ Enabled0 /\ NonDefault0 /\ Op0 = "AND" /\ SameOp0 = "OR")
        => (result = "true" <=>
                \A p \in GroupsPresent : \E i \in GroupOf(p) : ConditionTrue(i))

\* C3 witness: a group whose first condition is false and whose later
\* condition is true, beside another group, and evaluate returned true.
C3_Witness ==
    /\ pc = "done" /\ result = "true" /\ Enabled0 /\ NonDefault0
    /\ Op0 = "AND" /\ SameOp0 = "OR"
    /\ Cardinality(GroupsPresent) = 2
    /\ \E i, j \in ConditionIds :
          /\ i < j
          /\ recipe0.conditions[i].property = recipe0.conditions[j].property
          /\ checker[i] = "false"
          /\ checker[j] = "true"

\* C4: an enabled recipe with defaultFor set is reported as a match if and
\* only if the activity's sport type equals defaultFor, whatever its
\* conditions, and no condition checker is invoked.
C4_DefaultForSportType ==
    (Found /\ Enabled0 /\ ~NonDefault0)
        => /\ CheckerCalls = {}
           /\ Finished => (result = "true" <=> activity.sportType = recipe0.defaultFor)

\* C4 witness: a default recipe that carries conditions, none of them true,
\* matched an activity of its sport.
C4_Witness ==
    /\ pc = "done" /\ result = "true" /\ Enabled0 /\ ~NonDefault0
    /\ Len(recipe0.conditions) >= 2
    /\ \A i \in ConditionIds : ~ConditionTrue(i)

\* C5: for a disabled recipe evaluate returns false, throws nothing, and
\* calls no checker, no executor and not the stats recorder.
C5_DisabledReturnsFalse ==
    (Found /\ ~Enabled0)
        => /\ calls = <<>>
           /\ Finished => (pc = "done" /\ result = "false")

\* C5 witness: a disabled recipe whose conditions would all match, or whose
\* defaultFor is the activity's sport, and evaluate has returned.
C5_Witness ==
    /\ pc = "done" /\ ~Enabled0 /\ RecipeMatches
    /\ Len(recipe0.conditions) >= 1

\* C6: whenever evaluate returns, it returns true if the recipe matched the
\* activity (it is enabled and its conditions matched, or its defaultFor is
\* the sport type) and false if it did not, whatever the executors returned.
C6_ReturnsMatched ==
    pc = "done"
        => /\ (Enabled0 /\ RecipeMatches) => result = "true"
           /\ ~(Enabled0 /\ RecipeMatches) => result = "false"

\* C6 witness: evaluate returned true although an executor returned false.
C6_Witness ==
    /\ pc = "done" /\ result = "true"
    /\ \E k \in ExecutorCalls : ~calls[k].ret

\* C7: the stats recorder is called exactly once in a call in which the
\* recipe matched, with the conjunction of the executors' results, and not
\* at all when the recipe is disabled, not found or does not match.
C7_StatsOncePerMatch ==
    /\ Cardinality(StatsCalls) <= 1
    /\ Finished =>
          IF Found /\ Enabled0 /\ RecipeMatches
          THEN /\ Cardinality(StatsCalls) = 1
               /\ \A k \in StatsCalls :
                      calls[k].ret = (\A e \in ExecutorCalls : calls[e].ret)
          ELSE StatsCalls = {}

\* C7 witness: the stats recorder was told of a failure, after one executor
\* succeeded and a later one failed.
C7_Witness ==
    /\ pc = "done"
    /\ \E k \in StatsCalls : ~calls[k].ret
    /\ \E e, f \in ExecutorCalls : e < f /\ calls[e].ret /\ ~calls[f].ret

\* C8 (as stated): once a recipe matched and its dispatch is over, every
\* action of the recipe has been handed to its executor exactly once, also
\* after an executor returned false.
C8_EveryActionExecuted ==
    (pc \in {"stats", "done"} /\ result # "false" /\ Found /\ Enabled0 /\ RecipeMatches)
        => \A a \in 1..Len(recipe0.actions) :
              Cardinality({k \in ExecutorCalls : calls[k].arg = a}) = 1

\* C9 (as stated): no action of another type is executed after a Webhook
\* action.
C9_WebhookLast ==
    \A k, l \in ExecutorCalls :
        (k < l /\ recipe0.actions[calls[k].arg].type = RecipeActionType.Webhook)
            => recipe0.actions[calls[l].arg].type = RecipeActionType.Webhook

\* C10: a checker that throws makes its condition false, no exception
\* leaves evaluate, and the evaluation goes on as with a false condition:
\* the value returned is the one the stated semantics gives with the
\* throwing condition counted as false.
C10_CheckerThrowIsFalse ==
    /\ \A k \in CheckerCalls : checker[calls[k].arg] = "throw" => ~calls[k].ret
    /\ (\E k \in CheckerCalls : checker[calls[k].arg] = "throw")
          => /\ pc # "thrown"
             /\ pc = "done" => (result = "true" <=> ConditionsMatch)

\* C10 witness: under samePropertyOp OR the first checker of a group threw,
\* a later condition of the group was still checked and was true, and
\* evaluate returned true.
C10_Witness ==
    /\ pc = "done" /\ result = "true" /\ SameOp0 = "OR"
    /\ \E k, l \in CheckerCalls :
          /\ k < l
          /\ checker[calls[k].arg] = "throw"
          /\ recipe0.conditions[calls[k].arg].property
                = recipe0.conditions[calls[l].arg].property
          /\ calls[l].ret

\* C11 (as stated): when an executor throws during the dispatch of a
\* matched recipe, no exception leaves evaluate, every action of the recipe
\* is still dispatched, and the stats recorder is still invoked.
C11_ExecutorThrowContinues ==
    (\E k \in ExecutorCalls : calls[k].threw)
        => /\ pc # "thrown"
           /\ pc = "done" =>
                /\ Cardinality(StatsCalls) = 1
                /\ \A a \in 1..Len(recipe0.actions) :
                      \E k \in ExecutorCalls : calls[k].arg = a

\* C12: checkers are short-circuited: inside a
\* group no checker is called after one that settled the group (a true one
\* under OR, a false one under AND), no checker of another group is called
\* after a group that settled the recipe under op, and no condition is
\* checked twice.
C12_CheckersShortCircuit ==
    \A k, l \in CheckerCalls :
          k < l =>
            LET pk == recipe0.conditions[calls[k].arg].property
                pl == recipe0.conditions[calls[l].arg].property
                groupK == {m \in CheckerCalls :
                              recipe0.conditions[calls[m].arg].property = pk}
                groupKTrue == IF SameOp0 = "OR" THEN \E m \in groupK : calls[m].ret
                              ELSE \A m \in groupK : calls[m].ret
            IN  /\ calls[k].arg # calls[l].arg
                /\ pk = pl => calls[k].ret = (SameOp0 # "OR")
                /\ pk # pl => groupKTrue = (Op0 # "OR")

\* C12 witness: under op OR and samePropertyOp AND a first group was left
\* at its first false condition although it holds a second one, the next
\* group was true, and evaluate returned without a third checker call.
C12_Witness ==
    /\ pc = "done" /\ result = "true" /\ Op0 = "OR" /\ SameOp0 = "AND"
    /\ Len(recipe0.conditions) = 3
    /\ Cardinality(CheckerCalls) = 2
    /\ \E k \in CheckerCalls :
          /\ ~calls[k].ret
          /\ Cardinality(GroupOf(recipe0.conditions[calls[k].arg].property)) = 2

\* C13: evaluate called with an id that user.recipes does not hold throws
\* the not-found error in its first step, with no checker, executor or
\* stats call and with the activity (and the stored recipe) untouched.
C13_NotFoundThrows ==
    [][\A id \in RequestIds \ UserRecipeIds :
          Start(id) => /\ pc' = "thrown"
                       /\ result' = NotFoundError
                       /\ calls' = <<>>
                       /\ activity' = activity
                       /\ recipe' = recipe]_vars

\* C13 witness: a call with an absent id has thrown, for a recipe r1 that
\* is enabled and would have matched.
C13_Witness ==
    /\ pc = "thrown" /\ result = NotFoundError
    /\ Enabled0 /\ RecipeMatches /\ Len(recipe0.conditions) >= 1

\* ---------------------------------------- validate: the stated semantics

Returned == vpc = "returned"
Thrown == vpc = "thrown"
IsDefault(r) == Field(r, "defaultFor", "") # ""
ListOf(r, k) == IF IsArray(Get(r, k)) THEN Get(r, k).v ELSE <<>>
Entries(r, k) == {ListOf(r, k)[i] : i \in 1..Len(ListOf(r, k))}
UnknownIn(entries, fields) == {e \in entries : (DOMAIN e) \ fields # {}}
Present(x) == x.t # "undefined" /\ x # Null /\ x # Str("")

\* C14: validate never throws because of an unrecognized field, and a
\* recipe it returns on has no unrecognized field left on the recipe, on a
\* condition or on an action. (Lines 169 to 175 and 204 to 210 throw
\* "Invalid field" for such a field of a condition or of an action.)
C14_NeverFailsOnUnknownField ==
    /\ verror # ErrField
    /\ Returned =>
          /\ DOMAIN vrecipe \subseteq KnownRecipeFields
          /\ UnknownIn(Entries(vrecipe, "conditions"), ConditionFields) = {}
          /\ UnknownIn(Entries(vrecipe, "actions"), ActionFields) = {}

\* C15: a validate call on a recipe on which the previous call returned
\* returns too and leaves the recipe, every field of it, as it was.
C15_ValidateIdempotent ==
    [][(Returned /\ vcount' = vcount + 1)
          => (vpc' = "returned" /\ vrecipe' = vrecipe)]_vars

\* C15 witness: a second call has returned on a recipe that the first call
\* had changed.
C15_Witness ==
    /\ Returned /\ vcount = 2
    /\ vrecipe # vinput
    /\ Len(ListOf(vinput, "actions")) > Len(ListOf(vrecipe, "actions"))

\* The recipe passed in has a valid title and valid actions: a non-empty
\* list once the empty entries are removed, of actions that pass every check.
TitleValid(r) == Field(r, "title", "") \notin {"", LongText}
ActionsValid(r) ==
    /\ IsArray(Get(r, "actions"))
    /\ Entries(r, "actions") \ {EmptyObject} # {}
    /\ \A a \in Entries(r, "actions") \ {EmptyObject} : ActionError(a) = NoError
OrderForced(r) == Get(r, "order") = Num("0") /\ Get(r, "conditions") = Arr(<<>>)

\* C16 as stated: on a default recipe with a valid title and valid actions
\* validate returns with order 0 and no conditions, whatever order and
\* conditions were passed.
C16_DefaultAlwaysForced ==
    (vcount >= 1 /\ IsDefault(vinput) /\ TitleValid(vinput) /\ ActionsValid(vinput))
        => Returned /\ OrderForced(vrecipe)

\* C16 amended: the same, provided the order passed in is absent or is a
\* number; an order of another type that does not convert to a number makes
\* validate throw before the forcing, default recipe or not.
C16_DefaultForcedGivenOrder ==
    (vcount >= 1 /\ IsDefault(vinput) /\ TitleValid(vinput) /\ ActionsValid(vinput))
        => IF Get(vinput, "order").t \in {"undefined", "number"}
           THEN Returned /\ OrderForced(vrecipe)
           ELSE Thrown /\ verror = ErrOrder

\* C16 witness: validate returned on a default recipe passed with an order
\* other than 0 and with a condition a non-default recipe is rejected for.
C16_Witness ==
    /\ Returned /\ IsDefault(vinput)
    /\ Get(vinput, "order") = Num("1")
    /\ \E c \in Entries(vinput, "conditions") : ConditionError(c) # NoError
    /\ OrderForced(vrecipe)

\* C17: a recipe validate returned on has op set (AND when it was passed
\* without) and samePropertyOp set (the value of op when passed without).
\* (No line of validate writes either field; lines 239 and 240 of evaluate
\* write them into the stored recipe when it first runs.)
C17_OperatorDefaultsSet ==
    Returned =>
        /\ Has(vrecipe, "op")
        /\ vrecipe["op"] = Field(vinput, "op", "AND")
        /\ Has(vrecipe, "samePropertyOp")
        /\ vrecipe["samePropertyOp"] = Field(vinput, "samePropertyOp", vrecipe["op"])

\* The conditions and the actions of the recipe validate returned on.
Conditions == ListOf(vrecipe, "conditions")
Actions == ListOf(vrecipe, "actions")
CatalogOperators(property) == UNION {p.operators : p \in PropSpecs(property)}
CatalogType(property) == UNION {{p.type} : p \in PropSpecs(property)}

\* C18: a non-default recipe validate returned on has no condition whose
\* operator is outside the operators the catalog lists for its property.
C18_OperatorOfProperty ==
    (Returned /\ ~IsDefault(vrecipe)) =>
        \A i \in 1..Len(Conditions) :
            Field(Conditions[i], "operator", "")
                \in CatalogOperators(Field(Conditions[i], "property", ""))

\* C19: a non-default recipe validate returned on has at least one
\* condition and no empty one, and every condition has a property of the
\* catalog and a value that is present (not missing, not null, not ""), that
\* is numeric when the property is a number and boolean-like when it is a
\* boolean.
C19_ConditionsWellFormed ==
    (Returned /\ ~IsDefault(vrecipe)) =>
        /\ Len(Conditions) >= 1
        /\ \A i \in 1..Len(Conditions) :
              LET c == Conditions[i]
                  type == CatalogType(Field(c, "property", ""))
              IN  /\ ~IsEmpty(c)
                  /\ type # {}
                  /\ Present(Get(c, "value"))
                  /\ type = {"number"} => ~IsNaN(Get(c, "value"))
                  /\ type = {"boolean"} => IsBooleanLike(Get(c, "value"))

\* C20: a recipe validate returned on has at least one action and no empty
\* one, every action has a type of the enumeration, and every action that is
\* not a boolean-flag action has a value that is present.
C20_ActionsWellFormed ==
    Returned =>
        /\ Len(Actions) >= 1
        /\ \A i \in 1..Len(Actions) :
              LET a == Actions[i]
                  type == Field(a, "type", <<>>)
              IN  /\ ~IsEmpty(a)
                  /\ type \in ActionTypeValues
                  /\ Executor(type) # "booleanAction" => Present(Get(a, "value"))

\* The structural rules in the order the specification lists them: the
\* title is missing or too long, the order is not a number, the actions are
\* missing, not a list, or empty once the empty entries are removed.
StructuralError(r) ==
    LET title == Field(r, "title", "")
        order == Get(r, "order")
    IN  IF title = "" THEN ErrTitleMissing
        ELSE IF title = LongText THEN ErrTitleLong
        ELSE IF order.t = "string" /\ order.v \notin NumericTexts THEN ErrOrder
        ELSE IF ~IsArray(Get(r, "actions")) THEN ErrActionsList
        ELSE IF Entries(r, "actions") \ {EmptyObject} = {} THEN ErrNoActions
        ELSE NoError

StructuralErrors ==
    {ErrTitleMissing, ErrTitleLong, ErrOrder, ErrActionsList, ErrNoActions}

\* C21: validate throws one error, and on a recipe that breaks a structural
\* rule it is the error of the first structural rule broken, whatever its
\* conditions and actions are like; an error about a condition or an
\* action is thrown only for a recipe that breaks no structural rule.
C21_StructuralFirst ==
    vcount = 1 =>
        /\ StructuralError(vinput) # NoError
              => Thrown /\ verror = StructuralError(vinput)
        /\ (Thrown /\ verror \notin StructuralErrors)
              => StructuralError(vinput) = NoError

\* C21 witness: validate threw the error of the empty actions list on a
\* non-default recipe that also has a condition validate rejects.
C21_Witness ==
    /\ Thrown /\ vcount = 1 /\ verror = ErrNoActions
    /\ ~IsDefault(vinput)
    /\ \E c \in Entries(vinput, "conditions") : ConditionError(c) # NoError

\* C30: whenever validate throws, the recipe object is as it was passed:
\* nothing pruned, no field deleted, order and conditions not overwritten.
C30_ThrowLeavesRecipe ==
    (Thrown /\ vcount = 1) => vrecipe = vinput

IsPrefix(s, t) ==
    Len(s) <= Len(t) /\ SubSeq(t, 1, Len(s)) = s

\* C22: while an action is dispatched activity.updatedFields is a list; a
\* list that was there keeps all its entries, in place, and a list that was
\* not there is created empty, when the first action is dispatched.
C22_UpdatedFieldsKept ==
    [][/\ pc' = "actions" => activity'.hasUpdatedFields
       /\ pc = "actions" => activity.hasUpdatedFields
       /\ activity.hasUpdatedFields
             => /\ activity'.hasUpdatedFields
                /\ IsPrefix(activity.updatedFields, activity'.updatedFields)
       /\ (~activity.hasUpdatedFields /\ activity'.hasUpdatedFields)
             => (activity'.updatedFields = <<>> /\ pc' = "actions")]_vars

\* C22 witness: after two dispatches on an activity that came with one
\* entry in updatedFields the list holds three.
C22_Witness ==
    /\ pc = "done"
    /\ Cardinality(ExecutorCalls) = 2
    /\ Len(activity.updatedFields) = 3
    /\ activity.updatedFields[1] = RecipeActionType.Name

\* The order a stable sort by type puts two actions of the recipe in: by
\* type, and by place in recipe.actions when the types are equal.
TypeOf(a) == recipe0.actions[a].type
SortsBefore(a, b) ==
    \/ StringLess(TypeOf(a), TypeOf(b))
    \/ TypeOf(a) = TypeOf(b) /\ a < b
Executed == {calls[k].arg : k \in ExecutorCalls}

\* C23: the executors run one after another in the order of a stable sort
\* by type: no step of evaluate runs more than one executor, an executor
\* call made later is for an action that sorts later (two actions of the
\* same type keep their order in recipe.actions), and no action is run
\* while one that sorts before it has not been.
C23_SequentialSorted ==
    /\ [](/\ \A k, l \in ExecutorCalls :
               k < l => SortsBefore(calls[k].arg, calls[l].arg)
          /\ \A a \in Executed :
               \A b \in (1..Len(recipe0.actions)) \ Executed : SortsBefore(a, b))
    /\ [][Len(calls') <= Len(calls) + 1]_vars

\* C23 witness: three executors have run, two of them for actions of the
\* same type, in an order that is not the order of recipe.actions.
C23_Witness ==
    /\ pc = "done"
    /\ Cardinality(ExecutorCalls) = 3
    /\ \E k, l \in ExecutorCalls :
          /\ k < l
          /\ calls[k].arg > calls[l].arg
    /\ \E a, b \in Executed : a # b /\ TypeOf(a) = TypeOf(b)

\* C24: when evaluate returns false because the conditions did not match,
\* the condition of the line it logged is the condition of its last
\* checker call, that call gave false, and the value logged with it is the
\* activity's value of the condition's property unless the property is
\* polyline, whose value is not logged; no such line is logged otherwise.
C24_LastFalseConditionLogged ==
    /\ (pc = "done" /\ result = "false" /\ Enabled0 /\ NonDefault0) =>
          LET last == calls[Len(calls)]
              property == recipe0.conditions[last.arg].property
          IN  /\ Len(calls) >= 1
              /\ last.kind = "checker" /\ ~last.ret
              /\ logged.condition = last.arg
              /\ IF property = "polyline"
                 THEN logged.value # activity.props["polyline"]
                 ELSE logged.value = activity.props[property]
    /\ logged # NoLog => (pc = "done" /\ result = "false")

\* C24 witness: a non-match was logged after three checker calls, the last
\* of them on a polyline condition.
C24_Witness ==
    /\ pc = "done" /\ result = "false"
    /\ Len(calls) = 3
    /\ logged.condition = calls[3].arg
    /\ recipe0.conditions[logged.condition].property = "polyline"
    /\ logged.value = NoValue

\* What a call run alone does, stated on its own inputs only: the stored
\* recipe as it was before either call, the call's activity and what its
\* checkers and executors answer. A condition is checked when no earlier
\* condition of its group settled the group and no earlier group settled
\* the recipe; groups come in the order of their first condition.
FirstOf(i) ==
    CHOOSE j \in GroupOf(recipe0.conditions[i].property) :
        \A m \in GroupOf(recipe0.conditions[i].property) : j <= m
Precedes(i, j) ==
    \/ FirstOf(i) < FirstOf(j)
    \/ FirstOf(i) = FirstOf(j) /\ i < j
ConditionSettles(i) == ConditionTrue(i) = (SameOp0 = "OR")
GroupSettles(p) == GroupTrue(p) = (Op0 = "OR")
Checked(i) ==
    /\ \A j \in GroupOf(recipe0.conditions[i].property) :
           j < i => ~ConditionSettles(j)
    /\ \A j \in ConditionIds :
           FirstOf(j) < FirstOf(i) => ~GroupSettles(recipe0.conditions[j].property)
PastConditions == pc \in {"actions", "stats", "done"} /\ Found /\ Enabled0
AloneCheckerCalls ==
    /\ \A k \in CheckerCalls :
           /\ Checked(calls[k].arg)
           /\ calls[k].ret = ConditionTrue(calls[k].arg)
    /\ \A k, l \in CheckerCalls : k < l => Precedes(calls[k].arg, calls[l].arg)
    /\ (PastConditions /\ NonDefault0) =>
           \A i \in ConditionIds : Checked(i) => \E k \in CheckerCalls : calls[k].arg = i
AloneExecutorCalls ==
    /\ ExecutorCalls # {} => RecipeMatches
    /\ \A k, l \in ExecutorCalls :
           k < l => calls[k].ret /\ SortsBefore(calls[k].arg, calls[l].arg)
    /\ \A a \in Executed :
           \A b \in (1..Len(recipe0.actions)) \ Executed : SortsBefore(a, b)
    /\ (pc \in {"stats", "done"} /\ ExecutorCalls # {}
           /\ \A k \in ExecutorCalls : calls[k].ret)
          => Executed = 1..Len(recipe0.actions)
AloneResult ==
    /\ pc = "done" => (result = "true" <=> (Enabled0 /\ RecipeMatches))
    /\ pc = "thrown" => (result = NotFoundError /\ calls = <<>>)
    /\ (pc = "done" /\ result = "true") =>
          /\ ExecutorCalls # {}
          /\ calls[Len(calls)] = StatsCall(\A k \in ExecutorCalls : calls[k].ret)

\* C25: of two evaluate calls of a user on two activities, interleaved at
\* their awaits in any way, each makes the checker and executor calls and
\* returns the value it makes and returns alone. (Either call is the call of
\* the variables at some point of each of its states.)
C25_InterleavingInvisible ==
    /\ AloneCheckerCalls
    /\ AloneExecutorCalls
    /\ AloneResult

\* C25 witness: the second call has returned true with two checker calls,
\* on a recipe stored without operators, while the first call, which
\* started first and set the recipe's operators, is suspended before its
\* second checker.
C25_Witness ==
    /\ cur = 2 /\ pc = "done" /\ result = "true"
    /\ Cardinality(CheckerCalls) = 2
    /\ recipe0.op = NoValue /\ recipe0.samePropertyOp = NoValue
    /\ other.pc = "conditions" /\ Len(other.calls) = 1

\* C26: the phases of one call are ordered. Every checker call precedes
\* every executor call; an executor call implies that the recipe is enabled
\* and matched, so a call that returned false made none and left the
\* activity as it received it; the stats update is the last call, after
\* every executor call, and is made before the call returns, after which
\* nothing more is called.
C26_PhasesOrdered ==
    /\ [](/\ \A k \in CheckerCalls : \A l \in ExecutorCalls : k < l
          /\ ExecutorCalls # {} => (Found /\ Enabled0 /\ RecipeMatches)
          /\ (pc = "done" /\ result = "false") =>
                /\ ExecutorCalls = {} /\ StatsCalls = {}
                /\ ~activity.hasUpdatedFields
                /\ activity.updatedFields = <<>>
          /\ \A k \in StatsCalls :
                /\ k = Len(calls)
                /\ ExecutorCalls # {}
                /\ \A l \in ExecutorCalls : l < k
          /\ (pc = "done" /\ result = "true") => StatsCalls # {})
    /\ [][/\ result # "none" => calls' = calls
          /\ pc \in {"actions", "stats"} => pc' # "conditions"]_vars

\* C26 witness: a call that returned true after two checker calls, two
\* executor calls and the stats update, in that order.
C26_Witness ==
    /\ pc = "done" /\ result = "true" /\ Len(calls) = 5
    /\ calls[1].kind = "checker" /\ calls[2].kind = "checker"
    /\ calls[3].kind = "executor" /\ calls[4].kind = "executor"
    /\ calls[5].kind = "stats"

\* C27: a call of evaluate returns or throws when every checker, executor
\* and stats update it awaits terminates, and within the call no condition
\* is checked twice and no action is executed twice.
C27_TerminatesNoRetry ==
    /\ <>Finished
    /\ [](/\ \A k, l \in CheckerCalls : calls[k].arg = calls[l].arg => k = l
          /\ \A k, l \in ExecutorCalls : calls[k].arg = calls[l].arg => k = l
          /\ Cardinality(StatsCalls) <= 1)

\* C27 witness: a finished call that checked three conditions and executed
\* two actions, the first of which failed.
C27_Witness ==
    /\ Finished
    /\ Cardinality(CheckerCalls) = 3
    /\ Cardinality(ExecutorCalls) = 2
    /\ \E k \in ExecutorCalls : ~calls[k].ret

\* C28: an enabled, non-default recipe of the user with no condition makes
\* evaluate complete without a throw, with the identity of its operator as
\* result: a match and a dispatch of its actions when the operator is AND
\* (or unset), a false return and no executor call when it is OR.
C28_EmptyConditionsIdentity ==
    (Found /\ Enabled0 /\ NonDefault0 /\ ConditionIds = {} /\ pc # "start") =>
        /\ pc # "thrown"
        /\ Op0 = "AND" => (ExecutorCalls # {} \/ pc = "actions")
        /\ (Op0 = "AND" /\ pc = "done") => result = "true"
        /\ Op0 = "OR" => (pc = "done" /\ result = "false" /\ calls = <<>>)

\* C29: evaluate called with the id of a recipe validate returned on never
\* throws from its lookup or its conditions, whatever the activity and
\* whatever the checkers answer or throw: it returns false, or it reaches
\* the dispatch of the recipe's actions, of which there is at least one.
C29_ValidatedNeverThrows ==
    /\ pc # "thrown"
    /\ pc = "done" => result \in {"true", "false"}
    /\ (pc = "done" /\ result = "true") => ExecutorCalls # {}
    /\ pc \in {"actions", "stats"} => Len(sortedActions) >= 1

\* C29 witness: a validated recipe with operator OR and two conditions,
\* one of which made its checker throw, has been evaluated to a false
\* return.
C29_Witness ==
    /\ Returned /\ pc = "done" /\ result = "false"
    /\ recipe0.op = "OR" /\ Len(recipe0.conditions) = 2
    /\ Cardinality(CheckerCalls) = 2
    /\ \E i \in ConditionIds : checker[i] = "throw"

====
